---- MODULE Spec2Model ----
(***************************************************************************)
(* Z-Wave whole house ventilation fan speed controller                     *)
(* (houseVentFanCtrl.ino): relay driver, percentage-to-speed mapping,      *)
(* EEPROM-backed set point, checksum-guarded configuration parameters and  *)
(* the sensor polling loop.                                                *)
(*                                                                         *)
(* Words are 16 bit, bytes 8 bit; the configuration parameter n is kept by *)
(* the Z-Uno core in two EEPROM bytes at 0x2000 + 2*(n-64), low byte       *)
(* first.  ee is the EEPROM, a byte per address that the program uses.     *)
(***************************************************************************)
EXTENDS Integers, Sequences, FiniteSets, TLC

\* ------------------------------------------------------------------------
\* Program constants
\* ------------------------------------------------------------------------
HIGH == 1
LOW == 0
\* level of a pin that has not been configured as an output yet
FLOATING == 2

NUMBER_OF_RELAYS == 6
EEPROM_ADDRESS == 0

\* variant: the checksum kept at the address of the set point
CHECKSUM_ADDRESS_Same == EEPROM_ADDRESS

CHECKSUM_ADDRESS == EEPROM_ADDRESS + 1

PARAMETER_START_EEPROM_ADDRESS == 8192
TEMP_HYSTERESIS_DEFAULT == 10
HUM_HYSTERESIS_DEFAULT == 10
READ_INTERVAL_DEFAULT_S == 30
READ_INTERVAL_MIN == 30
PARAMETER_FIRST_NUMBER == 64

CH_TEMP == 2
CH_HUM == 3

PARAM_TEMP_HYSTERESIS == 0
PARAM_HUM_HYSTERESIS == 1
PARAM_READ_INTERVAL == 2
PARAM_MAX == 3

\* variant: relay 5 wired in the list to the pin of relay 4
RELAY_PIN_Duplicate == <<9, 10, 11, 12, 12, 15>>

RELAY_PIN == <<9, 10, 11, 12, 14, 15>>

PinSet == {RELAY_PIN[k] : k \in 1..NUMBER_OF_RELAYS}

\* variant: the mid speed row energises relay 3 instead of relay 2
relayTable_MidRow ==
  << <<HIGH, HIGH, HIGH, HIGH, HIGH>>,
     <<LOW,  HIGH, HIGH, HIGH, HIGH>>,
     <<HIGH, HIGH, HIGH, HIGH, LOW>>,
     <<HIGH, HIGH, LOW,  HIGH, LOW>>,
     <<HIGH, HIGH, HIGH, LOW,  LOW>>,
     <<HIGH, HIGH, LOW,  LOW,  LOW>> >>

\* row = fan speed (0..5 stored at 1..6), column = relay number
relayTable ==
  << <<HIGH, HIGH, HIGH, HIGH, HIGH>>,
     <<LOW,  HIGH, HIGH, HIGH, HIGH>>,
     <<HIGH, HIGH, HIGH, HIGH, LOW>>,
     <<HIGH, LOW,  HIGH, HIGH, LOW>>,
     <<HIGH, HIGH, HIGH, LOW,  LOW>>,
     <<HIGH, HIGH, LOW,  LOW,  LOW>> >>

parametersDefault ==
  <<TEMP_HYSTERESIS_DEFAULT, HUM_HYSTERESIS_DEFAULT, READ_INTERVAL_DEFAULT_S>>

\* ------------------------------------------------------------------------
\* Bounds of the model
\* ------------------------------------------------------------------------
\* the clock advances in steps of ClockStepMs, at most MaxClockSteps times per boot
MaxClockSteps == 1

ClockStepMs == READ_INTERVAL_DEFAULT_S * 1000

ClockSteps == {0, ClockStepMs}

\* set points the host sends, and the set point bytes found in storage at first power-up
SpeedInputs == {0, 41}

InitFanBytes == {255}

\* the same for the runs that exercise the set point: every percentage, every stored byte
AllSpeedInputs == 0..99

AllFanBytes == 0..255

FanParamInputs == {66}

FanValueInputs == {7}

\* parameter numbers and values of the configuration events
ParamInputs == {0, 63, 64, 65, 66, 67}

ValueInputs == {7, 65535}

\* sensor readings <<temperature, humidity>> in tenths
Readings == {<<215, 400>>}

\* readings, hysteresis parameters and values for the runs that exercise the reports
MonitorReadings == {<<10, 5>>, <<215, 400>>, <<220, 400>>}

MonitorParamInputs == {64, 65}

MonitorValueInputs == {0, 5, 400}

\* read intervals (seconds) sent by the host in the runs that exercise the poll timer
TimerValueInputs == {40, 66}

\* ------------------------------------------------------------------------
\* Machine arithmetic
\* ------------------------------------------------------------------------
Byte == 0..255

u8(x) == x % 256

u16(x) == x % 65536

\* halves of a 32-bit unsigned value
hi16(x) == x \div 65536

lo16(x) == x % 65536

\* a - b modulo 2^32 on values given as <<high half, low half>>
sub32(a, b) ==
  LET borrow == IF a[2] < b[2] THEN 1 ELSE 0
  IN <<(a[1] - b[1] - borrow) % 65536, (a[2] - b[2]) % 65536>>

\* a >= x for a 32-bit unsigned a given as halves and 0 <= x < 2^31
ge32(a, x) == IF a[1] >= 32768 THEN TRUE ELSE a[1] * 65536 + a[2] >= x

highByte(w) == (w \div 256) % 256

lowByte(w) == w % 256

Abs(x) == IF x < 0 THEN -x ELSE x

\* ------------------------------------------------------------------------
\* State
\* ------------------------------------------------------------------------
VARIABLES
  ee,                   \* EEPROM contents, by address
  pinLevel,             \* level of each relay pin
  fanSpeed,
  parameters,
  pendingCfgParamSave,
  temperature,
  sentTemperature,
  humidity,
  sentHumidity,
  lastMillis,           \* static local of loop()
  millis,               \* the clock read by millis()
  pc,                   \* "off", "run", "cfgReturn"; "unit", "relays" when a function is driven directly
  hostVal,              \* <<param, value>> the caller of the handler still has to store
  sent,                 \* channels reported by the last operation
  lastOp,               \* name of the last operation that ran
  lastArg,              \* its arguments
  setArg,               \* argument of the last setterFan call made by the host, -1 if none
  bootsSinceSet,        \* number of times setup() ran since that call (capped at 1)
  ret,                  \* return value of the last function call made directly
  speedValue,           \* argument of the setSpeedRelays call in progress
  i,                    \* loop index of the setSpeedRelays call in progress
  lastApplied           \* level of the last completed in-range setSpeedRelays call, -1 if none

\* the EEPROM addresses the program reads or writes
EEAddrs ==
  {EEPROM_ADDRESS, CHECKSUM_ADDRESS}
    \cup {PARAMETER_START_EEPROM_ADDRESS + k : k \in 0..(PARAM_MAX * 2 - 1)}

\* the six bytes at PARAMETER_START_EEPROM_ADDRESS .. + 5 of EEPROM contents e
cfgBlock(e) == [k \in 1..(PARAM_MAX * 2) |-> e[PARAMETER_START_EEPROM_ADDRESS + k - 1]]

\* EEPROM byte at EEPROM_ADDRESS: the set point
eeFan == ee[EEPROM_ADDRESS]

\* EEPROM byte at CHECKSUM_ADDRESS
eeChk == ee[CHECKSUM_ADDRESS]

\* EEPROM bytes 0x2000 .. 0x2005: the parameter block, eeCfg[k] at 0x2000 + k - 1
eeCfg == cfgBlock(ee)

\* EEPROM.update(addr, val)
EEPROMupdate(e, addr, val) == [e EXCEPT ![addr] = val]

\* EEPROM contents e with the parameter block replaced by cfg
storeBlock(e, cfg) ==
  [a \in DOMAIN e |->
     IF (a - PARAMETER_START_EEPROM_ADDRESS) \in 0..(PARAM_MAX * 2 - 1)
     THEN cfg[a - PARAMETER_START_EEPROM_ADDRESS + 1]
     ELSE e[a]]

eeVars == <<ee>>

ramVars == <<fanSpeed, parameters, pendingCfgParamSave, temperature,
             sentTemperature, humidity, sentHumidity, lastMillis>>

callVars == <<ret, speedValue, i, lastApplied>>

vars == <<ee, pinLevel, fanSpeed, parameters,
          pendingCfgParamSave, temperature, sentTemperature, humidity,
          sentHumidity, lastMillis, millis, pc, hostVal, sent, lastOp,
          lastArg, setArg, bootsSinceSet, ret, speedValue, i, lastApplied>>

\* ------------------------------------------------------------------------
\* Relay driver and speed mapper
\* ------------------------------------------------------------------------
\* the five relay outputs used for speed control, as a tuple (channel 1..5)
relayOutputs(pins) == [k \in 1..(NUMBER_OF_RELAYS - 1) |-> pins[RELAY_PIN[k]]]

\* variant: the pin list indexed from one instead of zero
writeRelay_NextPin(pins, sv, idx) ==
  [pins EXCEPT ![RELAY_PIN[idx + 2]] = relayTable[sv + 1][idx + 1]]

\* body of the loop of setSpeedRelays: digitalWrite(RELAY_PIN[i], relayTable[speedValue][i])
writeRelay(pins, sv, idx) ==
  [pins EXCEPT ![RELAY_PIN[idx + 1]] = relayTable[sv + 1][idx + 1]]

RECURSIVE relayLoop_SkipLast(_, _, _)
\* variant: the loop stops one relay early
relayLoop_SkipLast(pins, sv, n) ==
  IF n <= 1 THEN pins
  ELSE writeRelay(relayLoop_SkipLast(pins, sv, n - 1), sv, n - 2)

RECURSIVE relayLoop(_, _, _)
\* pins after iterations 0 .. n-1 of the loop of setSpeedRelays
relayLoop(pins, sv, n) ==
  IF n = 0 THEN pins
  ELSE writeRelay(relayLoop(pins, sv, n - 1), sv, n - 1)

\* variant: range test off by one
speedValueInRange_Six(sv) == sv <= 6

speedValueInRange(sv) == sv <= 5

setSpeedRelays(pins, sv) ==
  IF speedValueInRange(sv)
  THEN relayLoop(pins, sv, NUMBER_OF_RELAYS - 1)
  ELSE pins

\* variant: thresholds compared with >=
convertSpeed_Inclusive(percentage) ==
  IF percentage >= 80 THEN 5
  ELSE IF percentage >= 60 THEN 4
  ELSE IF percentage >= 40 THEN 3
  ELSE IF percentage >= 20 THEN 2
  ELSE IF percentage > 0 THEN 1
  ELSE 0

convertSpeed(percentage) ==
  IF percentage > 80 THEN 5
  ELSE IF percentage > 60 THEN 4
  ELSE IF percentage > 40 THEN 3
  ELSE IF percentage > 20 THEN 2
  ELSE IF percentage > 0 THEN 1
  ELSE 0

getterFan == fanSpeed

\* ------------------------------------------------------------------------
\* Parameter store
\* ------------------------------------------------------------------------
\* zunoSaveCFGParam(PARAMETER_FIRST_NUMBER + n, &w): the word goes to bytes 2n, 2n+1
zunoSaveCFGParam(cfg, n, w) ==
  [cfg EXCEPT ![2 * n + 1] = lowByte(w), ![2 * n + 2] = highByte(w)]

\* variant: the two bytes read in the other order
zunoLoadCFGParam_Swapped(cfg, n) == cfg[2 * n + 2] + 256 * cfg[2 * n + 1]

\* zunoLoadCFGParam(PARAMETER_FIRST_NUMBER + n, &w)
zunoLoadCFGParam(cfg, n) == cfg[2 * n + 1] + 256 * cfg[2 * n + 2]

RECURSIVE sumBytes(_, _)
\* 8-bit running sum of the first n bytes of the stored parameter block
sumBytes(cfg, n) ==
  IF n = 0 THEN 0 ELSE u8(sumBytes(cfg, n - 1) + cfg[n])

\* the comparison verifyChecksum() returns
verifyChecksum(cfg, chk) == sumBytes(cfg, PARAM_MAX * 2) = chk

loadParameters(cfg) == [n \in 1..PARAM_MAX |-> zunoLoadCFGParam(cfg, n - 1)]

RECURSIVE saveChecksum_NoLow(_, _)
\* variant: the low bytes are left out of the sum
saveChecksum_NoLow(params, n) ==
  IF n = 0 THEN 0
  ELSE u8(saveChecksum_NoLow(params, n - 1) + highByte(params[n]))

RECURSIVE saveChecksum_NoHigh(_, _)
\* variant: the high bytes are left out of the sum
saveChecksum_NoHigh(params, n) ==
  IF n = 0 THEN 0
  ELSE u8(saveChecksum_NoHigh(params, n - 1) + lowByte(params[n]))

RECURSIVE saveChecksum(_, _)
\* the checksum saveParameters() accumulates over parameters 0 .. n-1
saveChecksum(params, n) ==
  IF n = 0 THEN 0
  ELSE u8(u8(saveChecksum(params, n - 1) + highByte(params[n])) + lowByte(params[n]))

RECURSIVE saveBlock(_, _, _)
\* the parameter block after saveParameters() stored parameters 0 .. n-1
saveBlock(cfg, params, n) ==
  IF n = 0 THEN cfg
  ELSE zunoSaveCFGParam(saveBlock(cfg, params, n - 1), n - 1, params[n])

\* EEPROM contents after saveParameters(): the three parameters, then the checksum
saveParameters(e, params) ==
  EEPROMupdate(storeBlock(e, saveBlock(cfgBlock(e), params, PARAM_MAX)),
               CHECKSUM_ADDRESS, saveChecksum(params, PARAM_MAX))

\* ------------------------------------------------------------------------
\* Configuration parameter handler
\* ------------------------------------------------------------------------
paramNumberOf(param) == u8(param - PARAMETER_FIRST_NUMBER)

\* variant: range test off by one
paramInRange_Inclusive(paramNumber) == ~(paramNumber > PARAM_MAX)

paramInRange(paramNumber) == ~(paramNumber >= PARAM_MAX)

\* variant: the floor applied to every parameter
acceptedValue_FloorAll(paramNumber, value) ==
  IF value < READ_INTERVAL_MIN THEN READ_INTERVAL_MIN ELSE value

\* variant: no floor for the read interval
acceptedValue_NoFloor(paramNumber, value) == value

\* the value the handler stores for an accepted parameter
acceptedValue(paramNumber, value) ==
  IF paramNumber = PARAM_READ_INTERVAL /\ value < READ_INTERVAL_MIN
  THEN READ_INTERVAL_MIN
  ELSE value

\* ------------------------------------------------------------------------
\* Polling loop
\* ------------------------------------------------------------------------
\* right-hand side of the comparison in loop(): unsigned 16-bit product
intervalMs(readInterval) == u16(readInterval * 1000)

\* currentMillis - lastMillis >= (parameters[PARAM_READ_INTERVAL] * 1000)
tickDue(currentMillis, last, readInterval) ==
  ge32(sub32(<<hi16(currentMillis), lo16(currentMillis)>>, <<hi16(last), lo16(last)>>),
       intervalMs(readInterval))

\* variant: a change equal to the hysteresis is not reported
reportDue_Strict(value, sentValue, hysteresis) == Abs(value - sentValue) > hysteresis

\* abs(value - sentValue) >= hysteresis; the readings of the sensor (tenths of a
\* degree or percent) stay far inside the 16 bit range, so the difference is exact
reportDue(value, sentValue, hysteresis) == Abs(value - sentValue) >= hysteresis


\* ------------------------------------------------------------------------
\* Initial states: power applied, setup() not run yet
\* ------------------------------------------------------------------------
\* the parameter block that holds the three words ws
blockOf(ws) == saveBlock([k \in 1..(PARAM_MAX * 2) |-> 0], ws, PARAM_MAX)

\* contents of the parameter block at first power-up: erased, or written earlier
InitBlocks ==
  { [k \in 1..(PARAM_MAX * 2) |-> 0],
    [k \in 1..(PARAM_MAX * 2) |-> 255],
    blockOf(parametersDefault),
    blockOf(<<7, 7, 7>>) }

InitChecksums == {0, 50, 255}

\* RAM and pins right after reset
ResetRam ==
  /\ fanSpeed = 0
  /\ parameters = [n \in 1..PARAM_MAX |-> 0]
  /\ pendingCfgParamSave = FALSE
  /\ temperature = 0
  /\ sentTemperature = 0
  /\ humidity = 0
  /\ sentHumidity = 0
  /\ lastMillis = 0
  /\ millis = 0
  /\ pinLevel = [p \in PinSet |-> FLOATING]

NoCall ==
  /\ ret = -1
  /\ speedValue = 0
  /\ i = 0
  /\ lastApplied = -1

NoHistory ==
  /\ hostVal = <<>>
  /\ sent = {}
  /\ lastOp = "none"
  /\ lastArg = <<>>
  /\ setArg = -1
  /\ bootsSinceSet = 0

\* EEPROM contents with set point byte f, checksum byte c and parameter block b
eeOf(f, c, b) ==
  storeBlock(EEPROMupdate(EEPROMupdate([a \in EEAddrs |-> 0], EEPROM_ADDRESS, f),
                          CHECKSUM_ADDRESS, c), b)

InitOver(fanBytes, blocks, checksums) ==
  /\ ee \in {eeOf(f, c, b) : f \in fanBytes, c \in checksums, b \in blocks}
  /\ ResetRam
  /\ NoCall
  /\ NoHistory
  /\ pc = "off"

Init == InitOver(InitFanBytes, InitBlocks, InitChecksums)

\* ------------------------------------------------------------------------
\* Operations
\* ------------------------------------------------------------------------
\* setup()
Setup ==
  /\ pc = "off"
  /\ LET newValue == ee[EEPROM_ADDRESS]
         replayed == EEPROMupdate(ee, EEPROM_ADDRESS, newValue)
         ok == verifyChecksum(cfgBlock(replayed), replayed[CHECKSUM_ADDRESS])
         cleared == [p \in PinSet |-> HIGH]
     IN /\ fanSpeed' = newValue
        /\ pinLevel' = setSpeedRelays(cleared, convertSpeed(newValue))
        /\ IF ok
           THEN /\ parameters' = loadParameters(cfgBlock(replayed))
                /\ ee' = replayed
           ELSE /\ parameters' = parametersDefault
                /\ ee' = saveParameters(replayed, parametersDefault)
        /\ lastArg' = <<ok>>
  /\ pc' = "run"
  /\ lastOp' = "setup"
  /\ sent' = {}
  /\ bootsSinceSet' = IF setArg = -1 THEN 0 ELSE 1
  /\ UNCHANGED <<pendingCfgParamSave, temperature, sentTemperature, humidity,
                 sentHumidity, lastMillis, millis, hostVal, setArg>>
  /\ UNCHANGED callVars

\* variant: the new value is not written to the EEPROM
SetterFan_NoSave(newValue) ==
  /\ pc = "run"
  /\ fanSpeed' = newValue
  /\ pinLevel' = setSpeedRelays(pinLevel, convertSpeed(newValue))
  /\ lastOp' = "setterFan"
  /\ lastArg' = <<newValue>>
  /\ setArg' = newValue
  /\ bootsSinceSet' = 0
  /\ sent' = {}
  /\ UNCHANGED <<ee, parameters, pendingCfgParamSave, temperature,
                 sentTemperature, humidity, sentHumidity, lastMillis, millis,
                 pc, hostVal>>
  /\ UNCHANGED callVars

\* setterFan(newValue), called by the host
SetterFan(newValue) ==
  /\ pc = "run"
  /\ fanSpeed' = newValue
  /\ pinLevel' = setSpeedRelays(pinLevel, convertSpeed(newValue))
  /\ ee' = EEPROMupdate(ee, EEPROM_ADDRESS, newValue)
  /\ lastOp' = "setterFan"
  /\ lastArg' = <<newValue>>
  /\ setArg' = newValue
  /\ bootsSinceSet' = 0
  /\ sent' = {}
  /\ UNCHANGED <<parameters, pendingCfgParamSave, temperature,
                 sentTemperature, humidity, sentHumidity, lastMillis, millis,
                 pc, hostVal>>
  /\ UNCHANGED callVars

\* variant: the handler updates the stored checksum itself
ConfigParameterChanged_InlineChecksum(param, value) ==
  /\ pc = "run"
  /\ LET paramNumber == paramNumberOf(param)
         changed == [parameters EXCEPT ![paramNumber + 1] = acceptedValue(paramNumber, value)]
     IN IF paramInRange(paramNumber)
        THEN /\ parameters' = changed
             /\ pendingCfgParamSave' = TRUE
             /\ ee' = EEPROMupdate(ee, CHECKSUM_ADDRESS, saveChecksum(changed, PARAM_MAX))
        ELSE UNCHANGED <<parameters, pendingCfgParamSave, ee>>
  /\ pc' = "cfgReturn"
  /\ hostVal' = <<param, value>>
  /\ lastOp' = "configParameterChanged"
  /\ lastArg' = <<>>
  /\ sent' = {}
  /\ UNCHANGED <<pinLevel, fanSpeed, temperature,
                 sentTemperature, humidity, sentHumidity, lastMillis, millis,
                 setArg, bootsSinceSet>>
  /\ UNCHANGED callVars

\* configParameterChanged(param, &value), called by the host
ConfigParameterChanged(param, value) ==
  /\ pc = "run"
  /\ LET paramNumber == paramNumberOf(param)
     IN IF paramInRange(paramNumber)
        THEN /\ parameters' =
                  [parameters EXCEPT ![paramNumber + 1] = acceptedValue(paramNumber, value)]
             /\ pendingCfgParamSave' = TRUE
        ELSE UNCHANGED <<parameters, pendingCfgParamSave>>
  /\ pc' = "cfgReturn"
  /\ hostVal' = <<param, value>>
  /\ lastOp' = "configParameterChanged"
  /\ lastArg' = <<>>
  /\ sent' = {}
  /\ UNCHANGED <<ee, pinLevel, fanSpeed, temperature,
                 sentTemperature, humidity, sentHumidity, lastMillis, millis,
                 setArg, bootsSinceSet>>
  /\ UNCHANGED callVars

\* the caller of the handler stores the received value after the handler returned
HostStore ==
  /\ pc = "cfgReturn"
  /\ LET n == hostVal[1] - PARAMETER_FIRST_NUMBER
     IN ee' = IF n \in 0..(PARAM_MAX - 1)
              THEN storeBlock(ee, zunoSaveCFGParam(cfgBlock(ee), n, hostVal[2]))
              ELSE ee
  /\ pc' = "run"
  /\ hostVal' = <<>>
  /\ lastOp' = "hostStore"
  /\ lastArg' = <<>>
  /\ sent' = {}
  /\ UNCHANGED <<pinLevel, millis, setArg, bootsSinceSet>>
  /\ UNCHANGED ramVars
  /\ UNCHANGED callVars

\* one iteration of loop(); step is the time since the previous iteration,
\* reading the values the sensor returns if it is read
Loop(step, reading) ==
  /\ pc = "run"
  /\ millis + step <= MaxClockSteps * ClockStepMs
  /\ LET currentMillis == millis + step
         tick == tickDue(currentMillis, lastMillis, parameters[PARAM_READ_INTERVAL + 1])
         sendT == tick /\ reportDue(reading[1], sentTemperature,
                                    parameters[PARAM_TEMP_HYSTERESIS + 1])
         sendH == tick /\ reportDue(reading[2], sentHumidity,
                                    parameters[PARAM_HUM_HYSTERESIS + 1])
     IN /\ millis' = currentMillis
        /\ lastMillis' = IF tick THEN currentMillis ELSE lastMillis
        /\ temperature' = IF tick THEN reading[1] ELSE temperature
        /\ humidity' = IF tick THEN reading[2] ELSE humidity
        /\ sentTemperature' = IF sendT THEN reading[1] ELSE sentTemperature
        /\ sentHumidity' = IF sendH THEN reading[2] ELSE sentHumidity
        /\ sent' = (IF sendT THEN {CH_TEMP} ELSE {}) \cup (IF sendH THEN {CH_HUM} ELSE {})
        /\ lastArg' = <<tick, pendingCfgParamSave>>
  /\ IF pendingCfgParamSave
     THEN ee' = saveParameters(ee, parameters)
     ELSE UNCHANGED ee
  /\ pendingCfgParamSave' = FALSE
  /\ lastOp' = "loop"
  /\ UNCHANGED <<pinLevel, fanSpeed, parameters, pc, hostVal, setArg,
                 bootsSinceSet>>
  /\ UNCHANGED callVars

\* power outage and return of power: RAM and pins are reset, the EEPROM is kept
PowerCycle ==
  /\ pc = "run"
  /\ fanSpeed' = 0
  /\ parameters' = [n \in 1..PARAM_MAX |-> 0]
  /\ pendingCfgParamSave' = FALSE
  /\ temperature' = 0
  /\ sentTemperature' = 0
  /\ humidity' = 0
  /\ sentHumidity' = 0
  /\ lastMillis' = 0
  /\ millis' = 0
  /\ pinLevel' = [p \in PinSet |-> FLOATING]
  /\ pc' = "off"
  /\ hostVal' = <<>>
  /\ sent' = {}
  /\ lastOp' = "powerCycle"
  /\ lastArg' = <<parameters>>
  /\ UNCHANGED <<setArg, bootsSinceSet>>
  /\ UNCHANGED eeVars
  /\ UNCHANGED callVars

\* ------------------------------------------------------------------------
\* The program
\* ------------------------------------------------------------------------
Next ==
  \/ Setup
  \/ \E newValue \in SpeedInputs : SetterFan(newValue)
  \/ \E param \in ParamInputs, value \in ValueInputs : ConfigParameterChanged(param, value)
  \/ HostStore
  \/ \E step \in ClockSteps, reading \in Readings : Loop(step, reading)
  \/ PowerCycle

Spec == Init /\ [][Next]_vars

\* the program with every percentage as set point and one configuration event
InitFan ==
  InitOver(AllFanBytes, {[k \in 1..(PARAM_MAX * 2) |-> 255]}, {255})

NextFan ==
  \/ Setup
  \/ \E newValue \in AllSpeedInputs : SetterFan(newValue)
  \/ \E param \in FanParamInputs, value \in FanValueInputs :
       ConfigParameterChanged(param, value)
  \/ HostStore
  \/ \E step \in ClockSteps, reading \in Readings : Loop(step, reading)
  \/ PowerCycle

SpecFan == InitFan /\ [][NextFan]_vars

\* the program with several sensor readings and hysteresis settings
InitMonitor ==
  InitOver({0}, {[k \in 1..(PARAM_MAX * 2) |-> 0], blockOf(parametersDefault)}, {0, 50})

NextMonitor ==
  \/ Setup
  \/ \E newValue \in {41} : SetterFan(newValue)
  \/ \E param \in MonitorParamInputs, value \in MonitorValueInputs :
       ConfigParameterChanged(param, value)
  \/ HostStore
  \/ \E step \in ClockSteps, reading \in MonitorReadings : Loop(step, reading)
  \/ PowerCycle

SpecMonitor == InitMonitor /\ [][NextMonitor]_vars

\* the program with read intervals above the default
InitTimer == InitOver({0}, {blockOf(parametersDefault)}, {50})

NextTimer ==
  \/ Setup
  \/ \E newValue \in {41} : SetterFan(newValue)
  \/ \E param \in {66}, value \in TimerValueInputs : ConfigParameterChanged(param, value)
  \/ HostStore
  \/ \E step \in ClockSteps, reading \in Readings : Loop(step, reading)
  \/ PowerCycle

SpecTimer == InitTimer /\ [][NextTimer]_vars

\* ------------------------------------------------------------------------
\* Functions driven directly
\* ------------------------------------------------------------------------
\* relay pins as the first loop of setup() leaves them; nothing else has run
InitUnit ==
  /\ ee = [a \in EEAddrs |-> 0]
  /\ fanSpeed = 0
  /\ parameters = [n \in 1..PARAM_MAX |-> 0]
  /\ pendingCfgParamSave = FALSE
  /\ temperature = 0
  /\ sentTemperature = 0
  /\ humidity = 0
  /\ sentHumidity = 0
  /\ lastMillis = 0
  /\ millis = 0
  /\ pinLevel = [p \in PinSet |-> HIGH]
  /\ NoCall
  /\ NoHistory
  /\ pc = "unit"

progVars == <<ee, fanSpeed, parameters, pendingCfgParamSave,
              temperature, sentTemperature, humidity, sentHumidity, lastMillis,
              millis, hostVal, sent, setArg, bootsSinceSet>>

\* ret = convertSpeed(percentage)
ConvertSpeedCall(percentage) ==
  /\ pc = "unit"
  /\ ret' = convertSpeed(percentage)
  /\ lastOp' = "convertSpeed"
  /\ lastArg' = <<percentage>>
  /\ UNCHANGED <<pinLevel, pc, speedValue, i, lastApplied>>
  /\ UNCHANGED progVars

NextConvert == \E percentage \in Byte : ConvertSpeedCall(percentage)

SpecConvert == InitUnit /\ [][NextConvert]_vars

\* setSpeedRelays(sv) is entered: the range test, then the loop or the return
SetSpeedRelaysEnter(sv) ==
  /\ pc = "unit"
  /\ speedValue' = sv
  /\ IF speedValueInRange(sv)
     THEN /\ pc' = "relays"
          /\ i' = 0
     ELSE /\ pc' = "unit"
          /\ i' = i
  /\ lastOp' = "setSpeedRelays"
  /\ lastArg' = <<sv>>
  /\ UNCHANGED <<pinLevel, ret, lastApplied>>
  /\ UNCHANGED progVars

\* one iteration of the loop of setSpeedRelays; the call returns after the last one
SetSpeedRelaysStep ==
  /\ pc = "relays"
  /\ i < NUMBER_OF_RELAYS - 1
  /\ pinLevel' = writeRelay(pinLevel, speedValue, i)
  /\ i' = i + 1
  /\ IF i + 1 < NUMBER_OF_RELAYS - 1
     THEN UNCHANGED <<pc, lastApplied>>
     ELSE /\ pc' = "unit"
          /\ lastApplied' = speedValue
  /\ UNCHANGED <<ret, speedValue, lastOp, lastArg>>
  /\ UNCHANGED progVars

NextRelay ==
  \/ \E sv \in Byte : SetSpeedRelaysEnter(sv)
  \/ SetSpeedRelaysStep

SpecRelay == InitUnit /\ [][NextRelay]_vars

\* ------------------------------------------------------------------------
\* Properties
\* ------------------------------------------------------------------------
\* relay channels 1..5 that are energised (LOW) / released (HIGH)
activeRelays == {k \in 1..(NUMBER_OF_RELAYS - 1) : pinLevel[RELAY_PIN[k]] = LOW}

inactiveRelays == {k \in 1..(NUMBER_OF_RELAYS - 1) : pinLevel[RELAY_PIN[k]] = HIGH}

\* energised channels per speed level Off, VeryLow, Low, Mid, High, Full
ExpectedActive == << {}, {1}, {5}, {2, 5}, {4, 5}, {3, 4, 5} >>

\* 8-bit sum of the six stored bytes of the parameter block
StoredByteSum(cfg) == (cfg[1] + cfg[2] + cfg[3] + cfg[4] + cfg[5] + cfg[6]) % 256

\* the three 16-bit values held by the parameter block
StoredWord(cfg, n) == cfg[2 * n - 1] + 256 * cfg[2 * n]

\* 8-bit sum of the high and low bytes of the three stored values
StoredWordSum(cfg) ==
  ( (StoredWord(cfg, 1) \div 256) + (StoredWord(cfg, 1) % 256)
  + (StoredWord(cfg, 2) \div 256) + (StoredWord(cfg, 2) % 256)
  + (StoredWord(cfg, 3) \div 256) + (StoredWord(cfg, 3) % 256) ) % 256

C2_RoundTrip ==
  (pc = "run" /\ bootsSinceSet = 1 /\ setArg \in 0..99) =>
    /\ getterFan = setArg
    /\ relayOutputs(pinLevel) = relayTable[convertSpeed(setArg) + 1]

C2_Witness ==
  /\ pc = "run"
  /\ lastOp = "setup"
  /\ bootsSinceSet = 1
  /\ setArg = 61
  /\ pendingCfgParamSave = FALSE
  /\ activeRelays = {4, 5}

\* C3: a completed setSpeedRelays(L), L in 0..5, leaves exactly the relays of
\* level L energised on channels 1..5 (Off {}, VeryLow {1}, Low {5},
\* Mid {2,5}, High {4,5}, Full {3,4,5}) and all other channels released,
\* whatever the outputs were before.
C3_AppliedRow ==
  (pc = "unit" /\ lastApplied # -1) =>
    /\ activeRelays = ExpectedActive[lastApplied + 1]
    /\ inactiveRelays = (1..(NUMBER_OF_RELAYS - 1)) \ ExpectedActive[lastApplied + 1]

C3_Witness ==
  /\ pc = "unit"
  /\ lastApplied = 3
  /\ lastArg = <<3>>
  /\ activeRelays = {2, 5}
  /\ inactiveRelays = {1, 3, 4}

\* C4: while setSpeedRelays(L) runs again right after setSpeedRelays(L) has
\* completed, no pin write changes any relay output.
C4_NoChatter ==
  [][(pc = "relays" /\ speedValue = lastApplied) => pinLevel' = pinLevel]_vars

C4_Witness == pc = "relays" /\ speedValue = lastApplied /\ speedValue = 3 /\ i = 4

\* C5: setSpeedRelays called with a level above 5 returns without entering the
\* write loop and leaves all six relay outputs as they were.
C5_OutOfRangeNoOp ==
  [][(pc = "unit" /\ speedValue' > 5) =>
       (pc' = "unit" /\ pinLevel' = pinLevel /\ i' = i /\ lastApplied' = lastApplied)]_vars

C5_Witness ==
  /\ pc = "unit"
  /\ lastArg = <<6>>
  /\ speedValue = 6
  /\ lastApplied = 5
  /\ activeRelays = {3, 4, 5}

\* C6: once setup() has run, relay output 6 is inactive (HIGH) in every state.
C6_SpareRelayInactive ==
  pc \in {"run", "cfgReturn"} => pinLevel[RELAY_PIN[NUMBER_OF_RELAYS]] = HIGH

C6_Witness ==
  /\ pc = "run"
  /\ lastOp = "setterFan"
  /\ fanSpeed = 41
  /\ activeRelays = {2, 5}
  /\ pinLevel[RELAY_PIN[NUMBER_OF_RELAYS]] = HIGH

\* C7: if at boot the stored checksum byte differs from the 8-bit sum of the six
\* stored parameter bytes, then after setup() the parameters in memory and in
\* storage are the defaults 10, 10, 30 and the stored checksum matches the
\* stored block.
C7_CorruptBootRestoresDefaults ==
  [][(pc = "off" /\ pc' = "run" /\ eeChk # StoredByteSum(eeCfg)) =>
       /\ parameters' = <<10, 10, 30>>
       /\ eeCfg' = <<10, 0, 10, 0, 30, 0>>
       /\ eeChk' = StoredByteSum(eeCfg')]_vars

C7_Witness ==
  /\ pc = "run"
  /\ lastOp = "setup"
  /\ lastArg = <<FALSE>>
  /\ parameters = <<10, 10, 30>>
  /\ eeChk = 50

\* C8 as stated: right after configParameterChanged(i, v) with i in 64..66
\* returns, the in-memory value of parameter i equals v.
C8_Original ==
  (pc = "cfgReturn" /\ hostVal[1] \in 64..66) =>
    parameters[hostVal[1] - 63] = hostVal[2]

\* C8 amended: right after configParameterChanged(i, v) with i in 64..66
\* returns, the in-memory value of parameter i equals v, except that for
\* parameter 66 (read interval) with v < 30 it equals 30.
C8_Amended ==
  (pc = "cfgReturn" /\ hostVal[1] \in 64..66) =>
    parameters[hostVal[1] - 63] =
      (IF hostVal[1] = 66 /\ hostVal[2] < 30 THEN 30 ELSE hostVal[2])

C8_Witness ==
  /\ pc = "cfgReturn"
  /\ hostVal = <<66, 7>>
  /\ parameters[3] = 30
  /\ pendingCfgParamSave

\* C9: when a loop() iteration runs with a parameter save pending (an accepted
\* change whose value the host has stored), the stored checksum byte afterwards
\* equals the 8-bit sum of the high and low bytes of the stored parameter values.
C9_ChecksumAfterLoop ==
  [][(pc = "run" /\ pendingCfgParamSave /\ lastOp' = "loop") =>
       eeChk' = StoredWordSum(eeCfg')]_vars

C9_Witness ==
  /\ pc = "run"
  /\ lastOp = "loop"
  /\ lastArg[2] = TRUE
  /\ parameters[1] = 65535
  /\ eeChk = StoredWordSum(eeCfg)

\* C10: configParameterChanged with a parameter number other than 64, 65, 66
\* changes neither the in-memory parameters, nor the pending-save flag, nor the
\* stored checksum.
C10_OutOfRangeDropped ==
  [][(pc = "run" /\ pc' = "cfgReturn" /\ hostVal'[1] \notin 64..66) =>
       /\ parameters' = parameters
       /\ pendingCfgParamSave' = pendingCfgParamSave
       /\ eeChk' = eeChk]_vars

C10_Witness ==
  /\ pc = "cfgReturn"
  /\ hostVal[1] = 63
  /\ pendingCfgParamSave = FALSE
  /\ parameters = <<10, 10, 30>>

\* C11: on every polling tick a temperature report is sent iff the new reading
\* differs from the last reported temperature by at least TempHysteresis, and
\* the last reported temperature becomes the reading exactly when it is sent;
\* likewise for humidity with HumHysteresis, each decided on its own values.
C11_ReportIffHysteresis ==
  [][(pc = "run" /\ lastOp' = "loop" /\ lastArg'[1]) =>
       /\ (CH_TEMP \in sent') <=>
            ( \/ temperature' - sentTemperature >= parameters[1]
              \/ sentTemperature - temperature' >= parameters[1] )
       /\ sentTemperature' = (IF CH_TEMP \in sent' THEN temperature' ELSE sentTemperature)
       /\ (CH_HUM \in sent') <=>
            ( \/ humidity' - sentHumidity >= parameters[2]
              \/ sentHumidity - humidity' >= parameters[2] )
       /\ sentHumidity' = (IF CH_HUM \in sent' THEN humidity' ELSE sentHumidity)]_vars

C11_Witness ==
  /\ lastOp = "loop"
  /\ lastArg[1]
  /\ sent = {CH_TEMP}
  /\ temperature = 10
  /\ sentTemperature = 10
  /\ humidity = 5
  /\ sentHumidity = 0
  /\ parameters[1] = 10
  /\ parameters[2] = 10

\* C12: an accepted parameter change writes nothing to the EEPROM inside the
\* handler and changes only that parameter in memory and the pending flag; the
\* flag stays set until the next loop() iteration, which stores all parameters
\* with a matching checksum (covering every change made since) and clears it.
C12_DeferredSave ==
  [][/\ (pc = "run" /\ pc' = "cfgReturn") => (eeCfg' = eeCfg /\ eeChk' = eeChk)
     /\ (pc = "run" /\ pc' = "cfgReturn" /\ hostVal'[1] \in 64..66) =>
          /\ pendingCfgParamSave'
          /\ \A n \in 1..3 : n # hostVal'[1] - 63 => parameters'[n] = parameters[n]
     /\ (pendingCfgParamSave /\ lastOp' # "loop" /\ pc' # "off") => pendingCfgParamSave'
     /\ (pc = "run" /\ lastOp' = "loop") =>
          /\ ~pendingCfgParamSave'
          /\ pendingCfgParamSave =>
               /\ \A n \in 1..3 : StoredWord(eeCfg', n) = parameters[n]
               /\ eeChk' = StoredByteSum(eeCfg')]_vars

C12_Witness ==
  /\ pc = "run"
  /\ lastOp = "loop"
  /\ lastArg[2]
  /\ ~pendingCfgParamSave
  /\ parameters[1] = 7
  /\ parameters[2] = 65535
  /\ StoredWord(eeCfg, 1) = 7
  /\ StoredWord(eeCfg, 2) = 65535

\* C13: in every state after boot the value returned by getterFan is in 0..99,
\* for any stored set point byte and set points 0..99 sent by the host.
C13_SetpointInDomain ==
  pc \in {"run", "cfgReturn"} => getterFan \in 0..99

\* C14: configParameterChanged(66, v) with v < 30 sets the in-memory read
\* interval to 30 and the next loop() iteration stores 30 over the v the host
\* wrote; with v >= 30, and for parameters 64 and 65 with any v, v is kept.
C14_ReadIntervalFloor ==
  [][/\ (pc = "run" /\ pc' = "cfgReturn" /\ hostVal'[1] = 66 /\ hostVal'[2] < 30) =>
          parameters'[3] = 30
     /\ (pc = "run" /\ pc' = "cfgReturn" /\ hostVal'[1] = 66 /\ hostVal'[2] >= 30) =>
          parameters'[3] = hostVal'[2]
     /\ (pc = "run" /\ pc' = "cfgReturn" /\ hostVal'[1] \in {64, 65}) =>
          parameters'[hostVal'[1] - 63] = hostVal'[2]
     /\ (pc = "run" /\ pendingCfgParamSave /\ lastOp' = "loop"
           /\ parameters[3] = 30 /\ StoredWord(eeCfg, 3) < 30) =>
          StoredWord(eeCfg', 3) = 30]_vars

C14_Witness ==
  /\ pc = "run"
  /\ lastOp = "loop"
  /\ lastArg[2]
  /\ parameters = <<0, 0, 30>>
  /\ StoredWord(eeCfg, 3) = 30

\* C15: in every state between operations after boot the EEPROM byte at
\* address 0 equals fanSpeed, so a getter that reads the EEPROM and getterFan
\* return the same value.
C15_StoredSetpointIsFanSpeed ==
  pc \in {"run", "cfgReturn"} => ee[EEPROM_ADDRESS] = getterFan

C15_Witness ==
  /\ pc = "run"
  /\ lastOp = "loop"
  /\ bootsSinceSet = 1
  /\ setArg = 99
  /\ fanSpeed = 99
  /\ ee[EEPROM_ADDRESS] = 99

\* C16: in every state between operations after boot, relay outputs 1..5 are
\* those of level convertSpeed(fanSpeed), and loop() iterations and parameter
\* events change no relay output.
C16_RelaysFollowSetpoint ==
  [][/\ pc' \in {"run", "cfgReturn"} =>
          /\ activeRelays' = ExpectedActive[convertSpeed(fanSpeed') + 1]
          /\ inactiveRelays' =
               (1..(NUMBER_OF_RELAYS - 1)) \ ExpectedActive[convertSpeed(fanSpeed') + 1]
     /\ lastOp' \in {"loop", "configParameterChanged", "hostStore"} =>
          pinLevel' = pinLevel]_vars

C16_Witness ==
  /\ pc = "run"
  /\ lastOp = "loop"
  /\ setArg = -1
  /\ fanSpeed = 255
  /\ activeRelays = {3, 4, 5}

\* C17: when setup() completes, for every content of the EEPROM at boot, the
\* stored checksum byte equals the 8-bit sum of the six stored parameter bytes
\* and the in-memory parameters equal the stored parameter values.
C17_BootEndsValid ==
  lastOp = "setup" =>
    /\ eeChk = StoredByteSum(eeCfg)
    /\ \A n \in 1..3 : parameters[n] = StoredWord(eeCfg, n)

C17_Witness ==
  /\ pc = "run"
  /\ lastOp = "setup"
  /\ lastArg = <<TRUE>>
  /\ parameters = <<0, 0, 0>>
  /\ eeChk = 0

\* C18: setterFan changes neither the checksum byte, nor the parameter block,
\* nor the in-memory parameters, and keeps a matching checksum matching; setup()
\* keeps the set point byte and, when the checksum matches, the whole parameter
\* store; loop(), the parameter handler and the host's store change neither the
\* set point byte, nor fanSpeed, nor any relay output.
C18_RegionsDisjoint ==
  [][/\ lastOp' = "setterFan" =>
          /\ eeChk' = eeChk
          /\ eeCfg' = eeCfg
          /\ parameters' = parameters
          /\ (eeChk = StoredByteSum(eeCfg) => eeChk' = StoredByteSum(eeCfg'))
     /\ (pc = "off" /\ pc' = "run") =>
          /\ eeFan' = eeFan
          /\ (eeChk = StoredByteSum(eeCfg) => (eeChk' = eeChk /\ eeCfg' = eeCfg))
     /\ lastOp' \in {"loop", "configParameterChanged", "hostStore"} =>
          /\ eeFan' = eeFan
          /\ fanSpeed' = fanSpeed
          /\ pinLevel' = pinLevel]_vars

C18_Witness ==
  /\ pc = "run"
  /\ lastOp = "setterFan"
  /\ eeFan = 41
  /\ parameters[1] = 65535
  /\ StoredWord(eeCfg, 1) = 65535
  /\ eeChk = StoredByteSum(eeCfg)

\* C19: a loop() iteration reads the sensor iff the milliseconds elapsed since
\* the previous reading are at least ReadInterval x 1000, the product taken
\* as a mathematical product.
C19_TickIffIntervalElapsed ==
  [][(pc = "run" /\ lastOp' = "loop") =>
       (lastArg'[1] <=> (millis' - lastMillis >= parameters[3] * 1000))]_vars

\* C20: in every state after boot the in-memory read interval is at least 30.
C20_ReadIntervalAtLeastMin ==
  pc \in {"run", "cfgReturn"} => parameters[3] >= 30

\* C21: after a power cycle taken between any two operations (also right after
\* an accepted parameter change whose value the host has stored, before the
\* next loop() iteration), setup() leaves the in-memory parameters equal to the
\* in-memory parameters just before the power cycle.
C21_ChangesSurvivePowerCycle ==
  [][(lastOp = "powerCycle" /\ pc = "off" /\ pc' = "run") =>
       parameters' = lastArg[1]]_vars

\* C22: while setSpeedRelays(B), B in 0..5, writes the five relay pins one after
\* the other (channel 1 first) starting from the outputs of a level A, the set
\* of energised relays on channels 1..5 is after every single write the set of
\* some row of the relay table.
C22_NoMixedPattern ==
  pc = "relays" =>
    \E level \in 0..5 : activeRelays = ExpectedActive[level + 1]

\* C23: on every polling tick, whatever the hysteresis parameters are (set by a
\* configuration event or loaded from storage), no report is sent for a
\* quantity whose new reading equals its last reported value.
C23_NoReportWithoutChange ==
  [][(pc = "run" /\ lastOp' = "loop" /\ lastArg'[1]) =>
       /\ (temperature' = sentTemperature => CH_TEMP \notin sent')
       /\ (humidity' = sentHumidity => CH_HUM \notin sent')]_vars

====
